---------------------------- MODULE Spec2Model ----------------------------
(***************************************************************************)
(* The agent loop of backend/routes/chat.py (run_agent): one request,      *)
(* driven through repeated model invocations, the streamed events of each  *)
(* turn, the accumulation of tool-call fragments, and the sequential       *)
(* execution of the named tool calls.                                      *)
(*                                                                         *)
(* Python strings are sequences of characters; a character is a one-       *)
(* element TLA+ string.  For tool arguments the characters are JSON        *)
(* lexemes.  Python's None is a distinguished value of each field's type.  *)
(***************************************************************************)
EXTENDS Integers, Sequences, FiniteSets, TLC

\* ------------------------------------------------------------------ bounds
MaxTurns == 3        \* model invocations issued by one request
MaxEvents == 3       \* events the provider streams in one request
MaxIndex == 2        \* tool-call indices 0 .. MaxIndex-1 used by the provider
MaxArgLen == 3       \* lexemes accumulated in one record's arguments

\* ------------------------------------------------------------ value spaces
None == <<"None">>                 \* Python None where a string is expected
NoId == "None"                     \* a message without a tool_call_id key
NoIndex == -1                      \* tc.index is None
SYSTEM_PROMPT == <<"SYSTEM_PROMPT">>
ToolName == "search_startups"
TextChunks == {<<>>, <<"x">>}      \* delta.content ("" is falsy)
ArgChars == {"{", "k", "}"}            \* JSON lexemes; k is "keywords":["ai"]
ArgChunks == {<<>>} \cup {<<c>> : c \in ArgChars}
                \cup {<<c, d>> : c \in ArgChars, d \in ArgChars}
SearchResults == {<<>>, <<"row">>}  \* what search_startups returns

VARIABLES
    pc,                 \* position of the generator
    openai_messages,    \* the Transcript
    collected_content,  \* the turn's text buffer
    tool_calls,         \* the turn's accumulated records
    tc_i,               \* position of "for tc in tool_calls" (1-based)
    args,               \* json.loads(tc["arguments"]) of the current call
    output,             \* chunks yielded to the consumer, in order
    nEvents,            \* events consumed so far
    sent,               \* history: the message list of each invocation
    trace,              \* history: the operations performed, in order
    handles,            \* storage handles currently open
    argsFed,            \* history: per index, the argument chunks consumed
                        \* in this turn, joined in arrival order
    finished,           \* history: an event consumed in this turn carried
                        \* a finish_reason
    storage,            \* the rows of the companies table, in heap order
    query,              \* the arguments of search_startups
    found               \* history: what each call of search_startups gave

searchVars == <<storage, query, found>>

vars == <<pc, openai_messages, collected_content, tool_calls, tc_i, args,
          output, nEvents, sent, trace, handles, argsFed, finished,
          storage, query, found>>


\* ------------------------------------------------------- provider's events
\* One tool-call delta of an event (chunk.choices[0].delta.tool_calls[k]).
\* function = FALSE is tc.function being None.
Indices == 0 .. MaxIndex - 1

Frag(index, id, function, name, arguments) ==
    [index |-> index, id |-> id, function |-> function, name |-> name,
     arguments |-> arguments]

\* The id a provider gives the call at an index: one per index.
IdOf(index) == <<"a", "b", "c", "d">>[index + 1]

\* The fragments of the loop's runs, per index: a whole call, the opening
\* of a call whose arguments follow, two continuations, and a delta with an
\* id and no function.  One fragment carries no index.
Fragments ==
    {Frag(i, IdOf(i), TRUE, ToolName, <<"{", "}">>) : i \in Indices}
    \cup {Frag(i, IdOf(i), TRUE, ToolName, <<"{">>) : i \in Indices}
    \cup {Frag(i, "", TRUE, "", <<"k">>) : i \in Indices}
    \cup {Frag(i, "", TRUE, "", <<"}">>) : i \in Indices}
    \cup {Frag(i, IdOf(i), FALSE, "", <<>>) : i \in Indices}
    \cup {Frag(NoIndex, "a", TRUE, ToolName, <<"{">>)}

\* delta.tool_calls: None/empty, one fragment, or two whole calls.
FragLists ==
    {<<>>} \cup {<<f>> : f \in Fragments}
    \cup {<<Frag(0, "a", TRUE, ToolName, <<"{", "}">>),
            Frag(1, "b", TRUE, ToolName, <<"{", "}">>)>>}

Event(choices, delta, content, frags, finish) ==
    [choices |-> choices, delta |-> delta, content |-> content,
     frags |-> frags, finish |-> finish]

\* One chunk of the response stream.  choices = FALSE is an empty
\* chunk.choices; delta = FALSE is a falsy delta; finish is a set
\* finish_reason.  The events of the loop's runs: text, tool-call deltas,
\* the closing event, and the events the loop passes over.
Events ==
    {Event(TRUE, TRUE, c, <<>>, FALSE) : c \in TextChunks}
    \cup {Event(TRUE, TRUE, <<>>, fs, FALSE) : fs \in FragLists}
    \cup {Event(TRUE, TRUE, <<>>, <<>>, TRUE),
          Event(TRUE, TRUE, <<"y">>,
                <<Frag(0, "a", TRUE, ToolName, <<"{", "}">>)>>, TRUE),
          Event(TRUE, FALSE, <<>>, <<>>, TRUE),
          Event(FALSE, FALSE, <<>>, <<>>, FALSE)}

\* The events of the accumulator's runs: any chunk of at most two lexemes
\* for any index, alone or two in one event, the opening of a call, text,
\* and the closing event.
AccFragLists ==
    {<<Frag(i, "", TRUE, "", c)>> : i \in Indices, c \in ArgChunks}
    \cup {<<Frag(i, IdOf(i), TRUE, ToolName, <<>>)>> : i \in Indices}
    \cup {<<Frag(i, "", TRUE, "", <<c>>), Frag(j, "", TRUE, "", <<d>>)>> :
             i \in Indices, j \in Indices, c \in ArgChars, d \in ArgChars}
    \cup {<<Frag(NoIndex, "a", TRUE, ToolName, <<"{">>)>>}

AccEvents ==
    {Event(TRUE, TRUE, <<>>, fs, FALSE) : fs \in AccFragLists}
    \cup {Event(TRUE, TRUE, <<"x">>, <<>>, FALSE),
          Event(TRUE, TRUE, <<"y">>, <<Frag(0, "", TRUE, "", <<"}">>)>>, TRUE),
          Event(TRUE, TRUE, <<>>, <<>>, TRUE)}

\* The caller's message list, role and flattened text of each message
\* (chat.py 113-116, 237-240: the role is any string): a first question, and
\* a conversation sent back with its history.
CallerMessage(role) == [role |-> role, content |-> <<"q">>]

CallerMessages ==
    {<<CallerMessage("user")>>,
     <<CallerMessage("user"), CallerMessage("assistant"),
       CallerMessage("tool")>>}

\* ---------------------------------------------------------------- messages
PlainMessage(role, content) ==
    [role |-> role, content |-> content, tool_calls |-> <<>>,
     tool_call_id |-> NoId]

\* chat.py 135-137
InitialTranscript(messages) ==
    <<PlainMessage("system", SYSTEM_PROMPT)>>
    \o [k \in 1 .. Len(messages) |->
            PlainMessage(messages[k].role, messages[k].content)]

EmptyRecord == [id |-> "", name |-> "", arguments |-> <<>>]

Named(tc) == tc.name # ""

\* chat.py 188-198: the descriptors of the records that have a name
Descriptors(tcs) == SelectSeq(tcs, Named)

\* chat.py 185-199
AssistantMessage(content, tcs) ==
    [role |-> "assistant",
     content |-> IF content # <<>> THEN content ELSE None,
     tool_calls |-> Descriptors(tcs),
     tool_call_id |-> NoId]

\* json.dumps of the result list
JsonDumps(results) == <<"[">> \o results \o <<"]">>

ToolMessage_NameAsId(tc, results) ==
    [role |-> "tool", content |-> JsonDumps(results), tool_calls |-> <<>>,
     tool_call_id |-> tc.name]

\* chat.py 221-225
ToolMessage(tc, results) ==
    [role |-> "tool", content |-> JsonDumps(results), tool_calls |-> <<>>,
     tool_call_id |-> tc.id]

\* ---------------------------------------------------- the delta accumulator
\* chat.py 167-168: while len(tool_calls) <= tc.index: append an empty record
Pad(tcs, index) ==
    IF Len(tcs) > index THEN tcs
    ELSE tcs \o [k \in 1 .. (index + 1 - Len(tcs)) |-> EmptyRecord]

UpdateRecord_Overwrite(r, f) ==
    [id |-> IF f.id # "" THEN f.id ELSE r.id,
     name |-> IF f.function /\ f.name # "" THEN f.name ELSE r.name,
     arguments |-> IF f.function /\ f.arguments # <<>>
                   THEN f.arguments ELSE r.arguments]

\* chat.py 170-176
UpdateRecord(r, f) ==
    [id |-> IF f.id # "" THEN f.id ELSE r.id,
     name |-> IF f.function /\ f.name # "" THEN f.name ELSE r.name,
     arguments |-> IF f.function /\ f.arguments # <<>>
                   THEN r.arguments \o f.arguments ELSE r.arguments]

\* chat.py 165-176: one fragment
Accumulate(tcs, f) ==
    IF f.index = NoIndex THEN tcs
    ELSE LET padded == Pad(tcs, f.index)
         IN  [padded EXCEPT ![f.index + 1] = UpdateRecord(@, f)]

\* chat.py 163-164: for tc in delta.tool_calls
RECURSIVE AccumulateAll(_, _)
AccumulateAll(tcs, frags) ==
    IF frags = <<>> THEN tcs
    ELSE AccumulateAll(Accumulate(tcs, Head(frags)), Tail(frags))

\* The chunks of one event's fragments addressed to index i, joined.
RECURSIVE ChunksFor(_, _)
ChunksFor(frags, i) ==
    IF frags = <<>> THEN <<>>
    ELSE (IF Head(frags).index = i THEN Head(frags).arguments ELSE <<>>)
         \o ChunksFor(Tail(frags), i)

\* chat.py 153-155: events whose delta is processed
HasDelta(e) == e.choices /\ e.delta

\* chat.py 179-180 (reached only when the delta was processed)
Breaks(e) == HasDelta(e) /\ e.finish

HasToolCalls_AnyRecord(tcs) == tcs # <<>>

\* chat.py 183
HasToolCalls(tcs) == tcs # <<>> /\ tcs[1].name # ""

\* ------------------------------------------------------------ json.loads
\* The documents over the lexemes: "{" "}" is {} and "{" "k" "}" is
\* {"keywords": ["ai"]}; every other string is not JSON (JSONDecodeError).
ParseOk(s) == s \in {<<"{", "}">>, <<"{", "k", "}">>}

\* chat.py 207-208, 216-217: args.get with the defaults of the calls
ParseArgs(s) ==
    [keywords |-> IF s = <<"{", "k", "}">> THEN <<"ai">> ELSE <<>>,
     city |-> None, limit |-> 10]

NoArgs == [keywords |-> <<>>, city |-> None, limit |-> 0]

\* search_startups is not being called
NoQuery == [keywords |-> <<>>, city |-> None, limit |-> 0]

\* chat.py 211
Notice(keywords) == <<"notice">> \o keywords

Yield_Twice(out, chunk) == Append(Append(out, chunk), chunk)

\* chat.py 160, 211: yield
Yield(out, chunk) == Append(out, chunk)

\* chat.py 202: the record visited after position i
NextRecord(i) == i + 1

Op(name, i) == [op |-> name, idx |-> i]


\* ------------------------------------------------------------------- state
Init ==
    /\ pc = "create"
    /\ \E messages \in CallerMessages :
           openai_messages = InitialTranscript(messages)
    /\ collected_content = <<>>
    /\ tool_calls = <<>>
    /\ tc_i = 1
    /\ args = NoArgs
    /\ output = <<>>
    /\ nEvents = 0
    /\ sent = <<>>
    /\ trace = <<>>
    /\ handles = 0
    /\ argsFed = [i \in Indices |-> <<>>]
    /\ finished = FALSE
    /\ storage = <<>>
    /\ query = NoQuery
    /\ found = <<>>

\* chat.py 141-146: the invocation is issued with the current Transcript
Invoke ==
    /\ pc = "create"
    /\ Len(sent) < MaxTurns
    /\ pc' = "await"
    /\ sent' = Append(sent, openai_messages)
    /\ trace' = Append(trace, Op("invoke", 0))
    /\ UNCHANGED <<openai_messages, collected_content, tool_calls, tc_i, args,
                   output, nEvents, handles, argsFed>>
    /\ UNCHANGED <<finished, storage, query, found>>

Respond_KeepRecords ==
    /\ pc = "await"
    /\ pc' = "stream"
    /\ UNCHANGED <<collected_content, tool_calls>>
    /\ argsFed' = [i \in Indices |-> <<>>]
    /\ trace' = Append(trace, Op("respond", 0))
    /\ UNCHANGED <<openai_messages, tc_i, args, output, nEvents, sent,
                   handles>>
    /\ finished' = FALSE
    /\ UNCHANGED searchVars

\* chat.py 141-150: the provider answers with a stream
Respond ==
    /\ pc = "await"
    /\ pc' = "stream"
    /\ collected_content' = <<>>
    /\ tool_calls' = <<>>
    /\ argsFed' = [i \in Indices |-> <<>>]
    /\ trace' = Append(trace, Op("respond", 0))
    /\ UNCHANGED <<openai_messages, tc_i, args, output, nEvents, sent,
                   handles>>
    /\ finished' = FALSE
    /\ UNCHANGED searchVars

\* chat.py 141, 152: the provider call or the stream raises
ProviderFails ==
    /\ pc \in {"await", "stream"}
    /\ pc' = "aborted"
    /\ trace' = Append(trace, Op("provider_error", 0))
    /\ UNCHANGED <<openai_messages, collected_content, tool_calls, tc_i, args,
                   output, nEvents, sent, handles, argsFed>>
    /\ UNCHANGED <<finished, storage, query, found>>

\* chat.py 152-180: one event of the stream, processed whole
StreamStep(e) ==
    /\ pc = "stream"
    /\ nEvents < MaxEvents
    /\ nEvents' = nEvents + 1
    /\ LET tcs == IF HasDelta(e) THEN AccumulateAll(tool_calls, e.frags)
                  ELSE tool_calls
       IN  /\ \A k \in 1 .. Len(tcs) : Len(tcs[k].arguments) <= MaxArgLen
           /\ tool_calls' = tcs
    /\ IF HasDelta(e) /\ e.content # <<>>
       THEN /\ collected_content' = collected_content \o e.content
            /\ output' = Yield(output, e.content)
       ELSE UNCHANGED <<collected_content, output>>
    /\ argsFed' = [i \in Indices |->
                       argsFed[i] \o ChunksFor(e.frags, i)]
    /\ pc' = IF Breaks(e) THEN "finalize" ELSE "stream"
    /\ UNCHANGED <<openai_messages, tc_i, args, sent, trace, handles>>
    /\ finished' = (finished \/ (e.choices /\ e.finish))
    /\ UNCHANGED searchVars

StreamEvent == \E e \in Events : StreamStep(e)

\* chat.py 152: the stream is exhausted without a finish_reason
StreamEnd ==
    /\ pc = "stream"
    /\ pc' = "finalize"
    /\ UNCHANGED <<openai_messages, collected_content, tool_calls, tc_i, args,
                   output, nEvents, sent, trace, handles, argsFed>>
    /\ UNCHANGED <<finished, storage, query, found>>

DecideTools_Truncating ==
    /\ pc = "finalize"
    /\ HasToolCalls(tool_calls)
    /\ openai_messages' =
           <<openai_messages[1],
             AssistantMessage(collected_content, tool_calls)>>
    /\ tc_i' = 1
    /\ pc' = "for"
    /\ trace' = Append(trace, Op("assistant", 0))
    /\ UNCHANGED <<collected_content, tool_calls, args, output, nEvents, sent,
                   handles, argsFed>>
    /\ UNCHANGED <<finished, storage, query, found>>

\* chat.py 183-199: there are tool calls, the assistant message is appended
DecideTools ==
    /\ pc = "finalize"
    /\ HasToolCalls(tool_calls)
    /\ openai_messages' =
           Append(openai_messages,
                  AssistantMessage(collected_content, tool_calls))
    /\ tc_i' = 1
    /\ pc' = "for"
    /\ trace' = Append(trace, Op("assistant", 0))
    /\ UNCHANGED <<collected_content, tool_calls, args, output, nEvents, sent,
                   handles, argsFed>>
    /\ UNCHANGED <<finished, storage, query, found>>

DecideDone_AppendsText ==
    /\ pc = "finalize"
    /\ ~HasToolCalls(tool_calls)
    /\ pc' = "done"
    /\ trace' = Append(trace, Op("return", 0))
    /\ openai_messages' =
           Append(openai_messages, PlainMessage("assistant", collected_content))
    /\ UNCHANGED <<collected_content, tool_calls, tc_i, args,
                   output, nEvents, sent, handles, argsFed>>
    /\ UNCHANGED <<finished, storage, query, found>>

\* chat.py 183, 230-231: no tool calls, the generator returns
DecideDone ==
    /\ pc = "finalize"
    /\ ~HasToolCalls(tool_calls)
    /\ pc' = "done"
    /\ trace' = Append(trace, Op("return", 0))
    /\ UNCHANGED <<openai_messages, collected_content, tool_calls, tc_i, args,
                   output, nEvents, sent, handles, argsFed>>
    /\ UNCHANGED <<finished, storage, query, found>>

ForSkip_NoAdvance ==
    /\ pc = "for"
    /\ tc_i <= Len(tool_calls)
    /\ ~Named(tool_calls[tc_i])
    /\ tc_i' = tc_i
    /\ UNCHANGED <<pc, openai_messages, collected_content, tool_calls, args,
                   output, nEvents, sent, trace, handles, argsFed>>
    /\ UNCHANGED <<finished, storage, query, found>>

\* chat.py 202-204: a record without a name is skipped
ForSkip ==
    /\ pc = "for"
    /\ tc_i <= Len(tool_calls)
    /\ ~Named(tool_calls[tc_i])
    /\ tc_i' = NextRecord(tc_i)
    /\ UNCHANGED <<pc, openai_messages, collected_content, tool_calls, args,
                   output, nEvents, sent, trace, handles, argsFed>>
    /\ UNCHANGED <<finished, storage, query, found>>

ForParse_SkipOnError ==
    /\ pc = "for"
    /\ tc_i <= Len(tool_calls)
    /\ Named(tool_calls[tc_i])
    /\ trace' = Append(trace, Op("parse", tc_i - 1))
    /\ IF ParseOk(tool_calls[tc_i].arguments)
       THEN /\ args' = ParseArgs(tool_calls[tc_i].arguments)
            /\ pc' = "notice"
            /\ UNCHANGED tc_i
       ELSE /\ pc' = "for"
            /\ tc_i' = tc_i + 1
            /\ UNCHANGED args
    /\ UNCHANGED <<openai_messages, collected_content, tool_calls,
                   output, nEvents, sent, handles, argsFed>>
    /\ UNCHANGED <<finished, storage, query, found>>

ForParse_AnyRecord ==
    /\ pc = "for"
    /\ tc_i <= Len(tool_calls)
    /\ trace' = Append(trace, Op("parse", tc_i - 1))
    /\ IF ParseOk(tool_calls[tc_i].arguments)
       THEN /\ args' = ParseArgs(tool_calls[tc_i].arguments)
            /\ pc' = "notice"
       ELSE /\ pc' = "aborted"
            /\ UNCHANGED args
    /\ UNCHANGED <<openai_messages, collected_content, tool_calls, tc_i,
                   output, nEvents, sent, handles, argsFed>>
    /\ UNCHANGED <<finished, storage, query, found>>

ForParse_SkipsNotice ==
    /\ pc = "for"
    /\ tc_i <= Len(tool_calls)
    /\ Named(tool_calls[tc_i])
    /\ trace' = Append(trace, Op("parse", tc_i - 1))
    /\ IF ParseOk(tool_calls[tc_i].arguments)
       THEN /\ args' = ParseArgs(tool_calls[tc_i].arguments)
            /\ pc' = "yielded"
       ELSE /\ pc' = "aborted"
            /\ UNCHANGED args
    /\ UNCHANGED <<openai_messages, collected_content, tool_calls, tc_i,
                   output, nEvents, sent, handles, argsFed>>
    /\ UNCHANGED <<finished, storage, query, found>>

\* chat.py 207-208: the arguments of a named record are parsed
ForParse ==
    /\ pc = "for"
    /\ tc_i <= Len(tool_calls)
    /\ Named(tool_calls[tc_i])
    /\ trace' = Append(trace, Op("parse", tc_i - 1))
    /\ IF ParseOk(tool_calls[tc_i].arguments)
       THEN /\ args' = ParseArgs(tool_calls[tc_i].arguments)
            /\ pc' = "notice"
       ELSE /\ pc' = "aborted"
            /\ UNCHANGED args
    /\ UNCHANGED <<openai_messages, collected_content, tool_calls, tc_i,
                   output, nEvents, sent, handles, argsFed>>
    /\ UNCHANGED <<finished, storage, query, found>>

\* chat.py 211: the progress notice is yielded
YieldNotice ==
    /\ pc = "notice"
    /\ output' = Yield(output, Notice(args.keywords))
    /\ pc' = "yielded"
    /\ trace' = Append(trace, Op("notice", tc_i - 1))
    /\ UNCHANGED <<openai_messages, collected_content, tool_calls, tc_i, args,
                   nEvents, sent, handles, argsFed>>
    /\ UNCHANGED <<finished, storage, query, found>>

\* chat.py 214, 73: search_startups is entered and opens its session
SearchBegin ==
    /\ pc = "yielded"
    /\ handles' = handles + 1
    /\ pc' = "query"
    /\ trace' = Append(trace, Op("search", tc_i - 1))
    /\ UNCHANGED <<openai_messages, collected_content, tool_calls, tc_i, args,
                   output, nEvents, sent, argsFed>>
    /\ UNCHANGED <<finished, storage, query, found>>

SearchReturn_NoAppend ==
    /\ pc = "query"
    /\ handles' = handles - 1
    /\ tc_i' = NextRecord(tc_i)
    /\ pc' = "for"
    /\ trace' = Append(trace, Op("tool", tc_i - 1))
    /\ UNCHANGED <<openai_messages, collected_content, tool_calls, args,
                   output, nEvents, sent, argsFed>>
    /\ UNCHANGED <<finished, storage, query, found>>

\* chat.py 93-105, 221-225: the search returns, the tool message is appended
SearchReturn ==
    /\ pc = "query"
    /\ \E results \in SearchResults :
           openai_messages' =
               Append(openai_messages,
                      ToolMessage(tool_calls[tc_i], results))
    /\ handles' = handles - 1
    /\ tc_i' = NextRecord(tc_i)
    /\ pc' = "for"
    /\ trace' = Append(trace, Op("tool", tc_i - 1))
    /\ UNCHANGED <<collected_content, tool_calls, args, output, nEvents, sent,
                   argsFed>>
    /\ UNCHANGED <<finished, storage, query, found>>

SearchRaises_Leak ==
    /\ pc = "query"
    /\ handles' = handles
    /\ pc' = "aborted"
    /\ trace' = Append(trace, Op("search_error", tc_i - 1))
    /\ UNCHANGED <<openai_messages, collected_content, tool_calls, tc_i, args,
                   output, nEvents, sent, argsFed>>
    /\ UNCHANGED <<finished, storage, query, found>>

\* chat.py 93, 104-105: the query raises, the session is closed on the way out
SearchRaises ==
    /\ pc = "query"
    /\ handles' = handles - 1
    /\ pc' = "aborted"
    /\ trace' = Append(trace, Op("search_error", tc_i - 1))
    /\ UNCHANGED <<openai_messages, collected_content, tool_calls, tc_i, args,
                   output, nEvents, sent, argsFed>>
    /\ UNCHANGED <<finished, storage, query, found>>

\* chat.py 202, 228: the for loop is over, the while loop continues
ForEnd ==
    /\ pc = "for"
    /\ tc_i > Len(tool_calls)
    /\ pc' = "create"
    /\ UNCHANGED <<openai_messages, collected_content, tool_calls, tc_i, args,
                   output, nEvents, sent, trace, handles, argsFed>>
    /\ UNCHANGED <<finished, storage, query, found>>

Close_Swallowed ==
    /\ pc \in {"await", "stream", "yielded"}
    /\ pc' = "create"
    /\ trace' = Append(trace, Op("close", 0))
    /\ UNCHANGED <<openai_messages, collected_content, tool_calls, tc_i, args,
                   output, nEvents, sent, handles, argsFed>>
    /\ UNCHANGED <<finished, storage, query, found>>

\* The consumer disconnects while the generator is suspended: awaiting the
\* provider (141, 152) or at a yield (160, 211).
Close ==
    /\ pc \in {"await", "stream", "yielded"}
    /\ pc' = "closed"
    /\ trace' = Append(trace, Op("close", 0))
    /\ UNCHANGED <<openai_messages, collected_content, tool_calls, tc_i, args,
                   output, nEvents, sent, handles, argsFed>>
    /\ UNCHANGED <<finished, storage, query, found>>

Next ==
    \/ Invoke
    \/ Respond
    \/ ProviderFails
    \/ StreamEvent
    \/ StreamEnd
    \/ DecideTools
    \/ DecideDone
    \/ ForSkip
    \/ ForParse
    \/ YieldNotice
    \/ SearchBegin
    \/ SearchReturn
    \/ SearchRaises
    \/ ForEnd
    \/ Close

Spec == Init /\ [][Next]_vars

\* ------------------------------------------------- the accumulator alone
\* One turn's stream, from the state the first response leaves (chat.py
\* 141-150), fed with the accumulator's events.
InitAcc ==
    /\ pc = "stream"
    /\ openai_messages = InitialTranscript(<<CallerMessage("user")>>)
    /\ collected_content = <<>>
    /\ tool_calls = <<>>
    /\ tc_i = 1
    /\ args = NoArgs
    /\ output = <<>>
    /\ nEvents = 0
    /\ sent = <<openai_messages>>
    /\ trace = <<Op("invoke", 0), Op("respond", 0)>>
    /\ handles = 0
    /\ argsFed = [i \in Indices |-> <<>>]
    /\ finished = FALSE
    /\ storage = <<>>
    /\ query = NoQuery
    /\ found = <<>>

AccEvent == \E e \in AccEvents : StreamStep(e)

NextAcc == AccEvent \/ StreamEnd

SpecAcc == InitAcc /\ [][NextAcc]_vars


\* ------------------------------------------------- vocabulary of the claims
Last(s) == s[Len(s)]

IsPrefix(s, t) == Len(s) <= Len(t) /\ SubSeq(t, 1, Len(s)) = s

IsStrictPrefix(s, t) == Len(s) < Len(t) /\ IsPrefix(s, t)

RECURSIVE Flat(_)
Flat(ss) == IF ss = <<>> THEN <<>> ELSE Head(ss) \o Flat(Tail(ss))

\* Position in the trace of the last operation among ops, 0 when none.
LastOp(ops) ==
    LET S == {k \in 1 .. Len(trace) : trace[k].op \in ops}
    IN  IF S = {} THEN 0 ELSE CHOOSE k \in S : \A j \in S : j <= k

\* The operations of the current turn: those after the last invocation.
TurnOps == SubSeq(trace, LastOp({"invoke"}) + 1, Len(trace))

\* Length of the Transcript as the request began, and as the turn began.
InitLen == IF sent = <<>> THEN Len(openai_messages) ELSE Len(sent[1])
TurnStart == IF sent = <<>> THEN Len(openai_messages) ELSE Len(Last(sent))

\* The messages appended during the current turn.
TurnMessages ==
    SubSeq(openai_messages, TurnStart + 1, Len(openai_messages))

IsRole(role, m) == m.role = role
IsTool(m) == m.role = "tool"
IsAssistant(m) == m.role = "assistant"
HasName(tc) == tc.name # ""

\* Indices (0-based) of the records with a name, ascending.
NamedIndices(tcs) ==
    LET RECURSIVE From(_)
        From(k) == IF k > Len(tcs) THEN <<>>
                   ELSE (IF tcs[k].name # "" THEN <<k - 1>> ELSE <<>>)
                        \o From(k + 1)
    IN  From(1)

\* The turn is over without a failure: the generator returned, or the loop
\* is back at the invocation.
TurnOver == pc = "done" \/ (pc = "create" /\ sent # <<>>)

\* ------------------------------------------------------------------ claims

\* C1: when the stream of a turn has ended and some finalized record, at any
\* index, has a name, run_agent does not return on that turn; it has appended
\* exactly one assistant message carrying the text buffer (None when empty)
\* and the descriptors of the named records in index order.
C1_NamedCallContinues ==
    /\ pc = "done" => \A k \in 1 .. Len(tool_calls) : tool_calls[k].name = ""
    /\ (pc \in {"for", "notice", "yielded", "query"} \/ TurnOver)
         /\ (\E k \in 1 .. Len(tool_calls) : tool_calls[k].name # "")
       => /\ SelectSeq(TurnMessages, IsAssistant) # <<>>
          /\ TurnMessages[1] =
                [role |-> "assistant",
                 content |-> IF collected_content = <<>> THEN None
                             ELSE collected_content,
                 tool_calls |-> SelectSeq(tool_calls, HasName),
                 tool_call_id |-> NoId]
          /\ Len(SelectSeq(TurnMessages, IsAssistant)) = 1

\* C2: when a turn is over without a failure, the tool messages appended in
\* it are exactly those of its k named records, in ascending index order
\* (all of them appended before the next invocation is issued).
C2_OneToolMessagePerNamedCall ==
    TurnOver =>
        LET tm == SelectSeq(TurnMessages, IsTool)
            ni == NamedIndices(tool_calls)
        IN  /\ Len(tm) = Len(ni)
            /\ \A k \in 1 .. Len(ni) :
                   tm[k].tool_call_id = tool_calls[ni[k] + 1].id

\* C3: a turn whose stream ends with no named record ends the request: the
\* generator returns without a message, an invocation, an Executor call or
\* an output chunk, and nothing happens after it has returned.
C3_NoNamedCallTerminates ==
    [][/\ pc # "done"
       /\ (pc = "finalize"
             /\ \A k \in 1 .. Len(tool_calls) : tool_calls[k].name = "")
          => /\ pc' = "done"
             /\ UNCHANGED <<openai_messages, output, sent, handles>>]_vars

C3_Witness ==
    /\ pc = "done"
    /\ Len(sent) = 2
    /\ Len(tool_calls) = 2
    /\ \A k \in 1 .. Len(tool_calls) : tool_calls[k].name = ""


\* C4: for every index, the arguments of its record are the chunks
\* addressed to that index joined in arrival order, however they were split
\* and interleaved, and equal what one fragment carrying the whole string
\* gives; an index that received no fragment with a higher or equal index
\* has no record.
C4_ArgumentsAreChunksInOrder ==
    \A i \in Indices :
        IF i < Len(tool_calls)
        THEN /\ tool_calls[i + 1].arguments = argsFed[i]
             /\ AccumulateAll(<<>>, <<Frag(i, "", TRUE, "", argsFed[i])>>)
                    [i + 1].arguments = tool_calls[i + 1].arguments
        ELSE argsFed[i] = <<>>

C4_Witness ==
    /\ pc = "finalize"
    /\ nEvents = 3
    /\ collected_content # <<>>
    /\ Len(tool_calls) = 2
    /\ tool_calls[1].arguments = <<"{", "k", "}">>
    /\ tool_calls[2].arguments = <<"{">>


\* C5: a failure aborts the request at once.  A provider failure, arguments
\* of a named call that do not parse, and a raising Executor each lead in
\* one step to the aborted generator, with no chunk sent, no message
\* appended, no invocation issued and no handle opened by that step; and no
\* step is ever taken by an aborted generator, so what was delivered stays
\* delivered and nothing is retried.
C5_Aborting ==
    /\ pc' = "aborted"
    /\ output' = output
    /\ openai_messages' = openai_messages
    /\ sent' = sent
    /\ handles' <= handles

C5_FailureAbortsAtOnce ==
    [][/\ pc # "aborted"
       /\ (/\ pc = "for"
           /\ tc_i <= Len(tool_calls)
           /\ tool_calls[tc_i].name # ""
           /\ tool_calls[tc_i].arguments
                 \notin {<<"{", "}">>, <<"{", "k", "}">>})
          => C5_Aborting
       /\ (/\ trace' # trace
           /\ Last(trace').op \in {"provider_error", "search_error"})
          => C5_Aborting]_vars

C5_Witness ==
    /\ pc = "aborted"
    /\ Last(trace) = Op("parse", 1)
    /\ output # <<>>
    /\ SelectSeq(TurnMessages, IsTool) # <<>>

\* C6: the output is exactly the text consumed and the notices yielded, in
\* the order they occurred, in every state (so each chunk is out before the
\* next event is consumed): flattened, it is, turn by turn, the text of the
\* turn followed by the notices of its calls, and then the text buffer of
\* the turn in progress; and no chunk of it is empty.
C6_AssistantsOfLoop ==
    SelectSeq(SubSeq(openai_messages, InitLen + 1, Len(openai_messages)),
              IsAssistant)

C6_Text(m) == IF m.content = <<"None">> THEN <<>> ELSE m.content

RECURSIVE C6_Expected(_, _, _)
C6_Expected(p, k, j) ==
    IF p > Len(trace) THEN <<>>
    ELSE IF trace[p].op = "assistant"
    THEN C6_Text(C6_AssistantsOfLoop[k + 1]) \o C6_Expected(p + 1, k + 1, 0)
    ELSE IF trace[p].op = "notice"
    THEN (<<"notice">>
          \o (IF C6_AssistantsOfLoop[k].tool_calls[j + 1].arguments
                    = <<"{", "k", "}">>
              THEN <<"ai">> ELSE <<>>))
         \o C6_Expected(p + 1, k, j + 1)
    ELSE C6_Expected(p + 1, k, j)

C6_OutputIsWhatWasConsumed ==
    /\ Flat(output) =
          C6_Expected(1, 0, 0)
          \o (IF LastOp({"respond"}) > LastOp({"assistant"})
              THEN collected_content ELSE <<>>)
    /\ \A n \in 1 .. Len(output) : output[n] # <<>>

C6_Witness ==
    /\ Len(output) = 3
    /\ output[1] = <<"x">>
    /\ output[2][1] = "notice"
    /\ output[3] = <<"x">>

\* C7 as stated: every tool message of the Transcript has, as the last
\* assistant message before it, one that carries a descriptor with its
\* tool_call_id.
C7_PrecedingAssistant(k) ==
    LET S == {j \in 1 .. k - 1 : openai_messages[j].role = "assistant"}
    IN  IF S = {} THEN 0 ELSE CHOOSE j \in S : \A i \in S : i <= j

C7_Matches(k) ==
    LET j == C7_PrecedingAssistant(k)
    IN  /\ j > 0
        /\ \E d \in 1 .. Len(openai_messages[j].tool_calls) :
               openai_messages[j].tool_calls[d].id
                   = openai_messages[k].tool_call_id

C7_EveryToolMessageMatches ==
    \A k \in 1 .. Len(openai_messages) :
        openai_messages[k].role = "tool" => C7_Matches(k)

\* C7 amended: every tool message appended by run_agent (every one after
\* the system instruction and the caller's messages) has, as the last
\* assistant message before it, one that carries a descriptor with its
\* tool_call_id.
C7_AppendedToolMessagesMatch ==
    \A k \in InitLen + 1 .. Len(openai_messages) :
        openai_messages[k].role = "tool" => C7_Matches(k)

C7_Witness ==
    /\ Len(openai_messages) = InitLen + 3
    /\ Len(openai_messages[InitLen + 1].tool_calls) = 2
    /\ openai_messages[InitLen + 2].tool_call_id = "a"
    /\ openai_messages[InitLen + 3].tool_call_id = "b"

\* C8: the Transcript starts as the system instruction followed by the
\* caller's messages in their order; every step leaves the old Transcript
\* as a prefix of the new one; every invocation is passed the whole current
\* Transcript, which strictly extends the list of the previous invocation.
C8_StartsAsGiven ==
    /\ openai_messages[1] =
          [role |-> "system", content |-> <<"SYSTEM_PROMPT">>,
           tool_calls |-> <<>>, tool_call_id |-> NoId]
    /\ \E m \in CallerMessages :
          /\ InitLen = Len(m) + 1
          /\ \A k \in 1 .. Len(m) :
                /\ openai_messages[k + 1].role = m[k].role
                /\ openai_messages[k + 1].content = m[k].content

C8_TranscriptAppendOnlyResentInFull ==
    /\ []C8_StartsAsGiven
    /\ [][/\ IsPrefix(openai_messages, openai_messages')
          /\ sent' # sent
             => /\ sent' = Append(sent, openai_messages)
                /\ sent # <<>>
                   => IsStrictPrefix(Last(sent), openai_messages)]_vars

C8_Witness ==
    /\ Len(sent) = 3
    /\ Len(sent[3]) > Len(sent[2]) + 1

\* C9: the calls of a turn run one after another in ascending index order:
\* when the Executor is entered for index j, every named record of a lower
\* index has had its call return and its tool message appended; an Executor
\* call is followed by nothing but its own return or failure; at most one
\* handle is open, and only inside an Executor call.
C9_ToolOps == SelectSeq(TurnOps, LAMBDA o : o.op = "tool")

C9_SequentialInIndexOrder ==
    /\ handles \in {0, 1}
    /\ handles = 1 <=> pc = "query"
    /\ \A p \in 1 .. Len(TurnOps) :
          TurnOps[p].op = "search" =>
             /\ \A l \in 0 .. TurnOps[p].idx - 1 :
                   tool_calls[l + 1].name # "" =>
                      \E q \in 1 .. p - 1 : TurnOps[q] = Op("tool", l)
             /\ \A q \in 1 .. p - 1 :
                   TurnOps[q].op = "search" => TurnOps[q].idx < TurnOps[p].idx
             /\ p < Len(TurnOps) =>
                   /\ TurnOps[p + 1].op \in {"tool", "search_error"}
                   /\ TurnOps[p + 1].idx = TurnOps[p].idx
    /\ LET tm == SelectSeq(TurnMessages, IsTool)
       IN  /\ Len(tm) = Len(C9_ToolOps)
           /\ \A k \in 1 .. Len(tm) :
                 tm[k].tool_call_id = tool_calls[C9_ToolOps[k].idx + 1].id

C9_Witness ==
    /\ pc = "query"
    /\ tc_i = 2
    /\ Len(SelectSeq(TurnMessages, IsTool)) = 1

CountOps(ops) == Len(SelectSeq(trace, LAMBDA o : o.op \in ops))

\* C11: every call of search_startups acquires one storage handle and
\* releases it on every way out, by return or by exception: the handles
\* open are the calls entered less the calls left, a handle is open exactly
\* while a call is in progress, and never more than one is open.
C11_OneHandlePerCallAlwaysReleased ==
    /\ handles = CountOps({"search"}) - CountOps({"tool", "search_error"})
    /\ handles \in {0, 1}
    /\ handles = 1 <=> pc = "query"

C11_Witness ==
    /\ pc = "aborted"
    /\ Last(trace).op = "search_error"
    /\ CountOps({"search"}) = 2
    /\ handles = 0

\* ---------------------------------------------------------------- C12
\* C12: when the consumer disconnects (the generator is closed while it is
\* suspended at a text yield, at a notice yield or awaiting the provider)
\* nothing follows the disconnection: no model invocation, no Executor
\* call, no other step of the loop, and no storage handle is held at or
\* after it.
C12_NothingAfterDisconnect ==
    /\ \A p \in 1 .. Len(trace) :
          trace[p].op = "close" => p = Len(trace) /\ pc = "closed"
    /\ pc = "closed" => handles = 0 /\ Last(trace).op = "close"

C12_Witness ==
    /\ pc = "closed"
    /\ Len(trace) >= 2
    /\ trace[Len(trace) - 1].op = "notice"
    /\ output # <<>>
    /\ handles = 0

\* ------------------------------------------------- search_startups alone
\* The Executor against a table of companies. Text is a sequence of
\* one-character strings, a NULL column is None.
MaxRows == 2
MaxCalls == 2

\* chat.py 71, 217: the limit when the tool call gives none
DefaultLimit == 10

\* chat.py 98: the slice taken of the description
DescriptionMax == 300

Row(name, description, text, url, city) ==
    [company_name |-> name, description |-> description,
     website_text |-> text, website_url |-> url, city |-> city]

\* database.py 51-56: every column of a company but id and created_at is
\* nullable
Rows ==
    { Row(<<"a">>, None, None, None, None),
      Row(<<"A", "b">>, <<"b">>, None, <<"u">>, <<"C">>),
      Row(None, <<"a">>, None, None, <<"c">>),
      Row(<<"b">>, None, <<"a">>, <<"u">>, None) }

RECURSIVE Tables(_)
Tables(n) ==
    IF n = 0 THEN {<<>>}
    ELSE Tables(n - 1)
            \cup {Append(t, r) : t \in {u \in Tables(n - 1) : Len(u) = n - 1},
                                 r \in Rows}

KeywordLists ==
    {<<>>, << <<"a">> >>, << <<"B">> >>, << <<"_">> >>, << <<"%">> >>,
     << <<>> >>, << <<"c">>, <<"a", "B">> >>}

Cities == {None, <<>>, <<"c">>}

Limits == {1, 2, DefaultLimit}

Queries == [keywords : KeywordLists, city : Cities, limit : Limits]

Lower(ch) ==
    CASE ch = "A" -> "a"
      [] ch = "B" -> "b"
      [] ch = "C" -> "c"
      [] OTHER -> ch

\* chat.py 82-84, 91: ILIKE, the case-insensitive LIKE of the database: in
\* the pattern "%" stands for any run of characters and "_" for any one
\* character, whoever put them there
RECURSIVE ILike(_, _)
ILike(s, pattern) ==
    IF pattern = <<>> THEN s = <<>>
    ELSE IF Head(pattern) = "%"
         THEN ILike(s, Tail(pattern))
                 \/ (s # <<>> /\ ILike(Tail(s), pattern))
         ELSE /\ s # <<>>
              /\ Head(pattern) = "_" \/ Lower(Head(pattern)) = Lower(Head(s))
              /\ ILike(Tail(s), Tail(pattern))

\* chat.py 81, 91: f"%{kw}%"
Pattern(kw) == <<"%">> \o kw \o <<"%">>

\* a comparison with NULL is not true
ColumnILike(column, pattern) == column # None /\ ILike(column, pattern)

\* chat.py 77-88
KeywordFilter(row, keywords) ==
    keywords # <<>> =>
        \E k \in 1 .. Len(keywords) :
            \/ ColumnILike(row.company_name, Pattern(keywords[k]))
            \/ ColumnILike(row.description, Pattern(keywords[k]))
            \/ ColumnILike(row.website_text, Pattern(keywords[k]))

\* chat.py 90-91: if city
CityFilter(row, city) ==
    (city # None /\ city # <<>>) => ColumnILike(row.city, Pattern(city))

Filtered(table, q) ==
    {i \in 1 .. Len(table) :
        KeywordFilter(table[i], q.keywords) /\ CityFilter(table[i], q.city)}

Min(a, b) == IF a <= b THEN a ELSE b

Slice(s, n) == SubSeq(s, 1, Min(Len(s), n))

OrEmpty(column) == IF column = None THEN <<>> ELSE column

\* chat.py 95-103
ToResult(row) ==
    [company_name |-> row.company_name,
     description |-> Slice(OrEmpty(row.description), DescriptionMax),
     website_url |-> OrEmpty(row.website_url),
     city |-> OrEmpty(row.city)]

\* chat.py 93: query.limit(limit).all() with no ORDER BY: the database
\* gives min(limit, matching) of the matching rows, which ones and in what
\* order it does not say
Selections(table, q) ==
    LET matching == Filtered(table, q)
        n == Min(q.limit, Cardinality(matching))
    IN  {p \in [1 .. n -> matching] :
            \A a, b \in 1 .. n : a # b => p[a] # p[b]}

InitSearch ==
    /\ pc = "search_idle"
    /\ storage \in Tables(MaxRows)
    /\ query \in Queries
    /\ found = <<>>
    /\ handles = 0
    /\ openai_messages = <<>>
    /\ collected_content = <<>>
    /\ tool_calls = <<>>
    /\ tc_i = 1
    /\ args = NoArgs
    /\ output = <<>>
    /\ nEvents = 0
    /\ sent = <<>>
    /\ trace = <<>>
    /\ argsFed = [i \in Indices |-> <<>>]
    /\ finished = FALSE

loopVars == <<openai_messages, collected_content, tool_calls, tc_i, args,
              output, nEvents, sent, trace, argsFed, finished>>

\* chat.py 71-73: search_startups is called and opens its session
search_startups_Call ==
    /\ pc = "search_idle"
    /\ Len(found) < MaxCalls
    /\ handles' = handles + 1
    /\ pc' = "search_open"
    /\ UNCHANGED <<storage, query, found>>
    /\ UNCHANGED loopVars

\* chat.py 75-105: the query runs, the rows are converted, the session is
\* closed, the results are returned
search_startups_Return ==
    /\ pc = "search_open"
    /\ \E p \in Selections(storage, query) :
           found' = Append(found,
                           [picked |-> p,
                            results |-> [a \in DOMAIN p |->
                                            ToResult(storage[p[a]])]])
    /\ handles' = handles - 1
    /\ pc' = "search_idle"
    /\ UNCHANGED <<storage, query>>
    /\ UNCHANGED loopVars

\* chat.py 93, 104-105: the query raises, the session is closed
search_startups_Raise ==
    /\ pc = "search_open"
    /\ handles' = handles - 1
    /\ pc' = "search_failed"
    /\ UNCHANGED <<storage, query, found>>
    /\ UNCHANGED loopVars

NextSearch ==
    \/ search_startups_Call
    \/ search_startups_Return
    \/ search_startups_Raise

SpecSearch == InitSearch /\ [][NextSearch]_vars

\* ---------------------------------------------------------------- C13
LowerAll(s) == [a \in DOMAIN s |-> Lower(s[a])]

IsSubstring(k, s) ==
    /\ s # None
    /\ \E a \in 0 .. Len(s) :
          /\ a + Len(k) <= Len(s)
          /\ SubSeq(LowerAll(s), a + 1, a + Len(k)) = LowerAll(k)

Eligible(row, q) ==
    /\ \/ q.keywords = <<>>
       \/ \E k \in 1 .. Len(q.keywords) :
             \/ IsSubstring(q.keywords[k], row.company_name)
             \/ IsSubstring(q.keywords[k], row.description)
             \/ IsSubstring(q.keywords[k], row.website_text)
    /\ \/ q.city = None
       \/ q.city = <<>>
       \/ IsSubstring(q.city, row.city)

EligibleRows == {i \in 1 .. Len(storage) : Eligible(storage[i], query)}

Picked(c) == {found[c].picked[a] : a \in DOMAIN found[c].picked}

\* C13: search_startups returns at most limit results; a record is returned
\* only if it is eligible, that is (keywords is empty or some keyword is a
\* case-insensitive substring of its name, description or website text)
\* and (city is absent, empty or a case-insensitive substring of its
\* city), every eligible record can be returned, and when fewer than limit
\* records are eligible all of them are returned.
C13_ReturnsEligibleUpToLimit ==
    \A c \in 1 .. Len(found) :
        /\ Len(found[c].results) <= query.limit
        /\ Picked(c) \subseteq EligibleRows
        /\ Cardinality(EligibleRows) < query.limit => Picked(c) = EligibleRows

\* ---------------------------------------------------------------- C14
\* C14: two calls of search_startups with the same keywords, city and
\* limit against unchanged storage return the same records in the same
\* order.
C14_RepeatedCallSameResults ==
    \A c, d \in 1 .. Len(found) : found[c].results = found[d].results

\* ---------------------------------------------------------------- C15
ResultFields == {"company_name", "description", "website_url", "city"}

\* C15: in every result of search_startups the four fields company_name,
\* description, website_url and city are strings, never null.
C15_ResultFieldsNeverNull ==
    \A c \in 1 .. Len(found) :
        \A a \in 1 .. Len(found[c].results) :
            \A f \in ResultFields : found[c].results[a][f] # None

\* ---------------------------------------------------------------- C16
\* C16: once an event carrying the terminal marker has been consumed in a
\* turn, whatever else the event carries, nothing of a later event of that
\* stream is forwarded, buffered or accumulated: while the turn is still
\* at its stream after such an event, the output, the text buffer and the
\* records do not change.
C16_NothingConsumedAfterTerminal ==
    [][(pc = "stream" /\ finished)
           => UNCHANGED <<output, collected_content, tool_calls>>]_vars

\* ---------------------------------------------------------------- C17
\* C17: the records and the text buffer belong to one turn.  Every
\* iteration starts its stream with no record and an empty text buffer;
\* the records of a turn hold, per index, exactly the argument chunks
\* received in that turn; and what a turn parses, announces and executes
\* are records of that turn.
C17_RecordsAndTextScopedToTurn ==
    /\ [][(pc = "await" /\ pc' = "stream")
              => (tool_calls' = <<>> /\ collected_content' = <<>>)]_vars
    /\ [](\A k \in 1 .. Len(tool_calls) :
             tool_calls[k].arguments = argsFed[k - 1])
    /\ [](\A p \in 1 .. Len(TurnOps) :
             TurnOps[p].op \in {"parse", "notice", "search", "tool"}
                => TurnOps[p].idx < Len(tool_calls))

C17_Witness ==
    /\ pc = "stream"
    /\ Len(sent) = 2
    /\ tool_calls = <<>>
    /\ collected_content = <<>>
    /\ Len(SelectSeq(openai_messages, IsTool)) >= 1
    /\ Last(openai_messages).role = "tool"
    /\ output # <<>>

\* ---------------------------------------------------------------- C18
\* C18 as stated: for each named record the progress notice is emitted
\* before the record's arguments are parsed.
C18_NoticeBeforeParse ==
    \A p \in 1 .. Len(TurnOps) :
        TurnOps[p].op = "parse"
           => \E n \in 1 .. p - 1 :
                 TurnOps[n].op = "notice" /\ TurnOps[n].idx = TurnOps[p].idx

C18_Follows(p, before) ==
    /\ p > 1
    /\ TurnOps[p - 1].op = before
    /\ TurnOps[p - 1].idx = TurnOps[p].idx

\* C18: for each named record, in index order, the steps are (1) the
\* arguments are parsed, (2) the progress notice is emitted, (3) the
\* Executor is called, (4) the tool message with the record's id is
\* appended: a notice comes right after the parse of its record, the
\* Executor call right after the notice, the tool message right after the
\* Executor call, a parse only after the assistant message or the previous
\* record's tool message, and the message appended is the record's.
C18_ParseNoticeExecutorMessage ==
    /\ \A p \in 1 .. Len(TurnOps) :
          /\ TurnOps[p].op = "notice" => C18_Follows(p, "parse")
          /\ TurnOps[p].op = "search" => C18_Follows(p, "notice")
          /\ TurnOps[p].op \in {"tool", "search_error"}
                => C18_Follows(p, "search")
          /\ TurnOps[p].op = "parse"
                => /\ p > 1
                   /\ TurnOps[p - 1].op \in {"assistant", "tool"}
                   /\ TurnOps[p - 1].op = "tool"
                         => TurnOps[p - 1].idx < TurnOps[p].idx
    /\ (pc = "for" /\ TurnOps # <<>> /\ Last(TurnOps).op = "tool")
          => /\ Last(openai_messages).role = "tool"
             /\ Last(openai_messages).tool_call_id
                   = tool_calls[Last(TurnOps).idx + 1].id
    /\ pc = "notice" => Last(TurnOps).op = "parse"
    /\ pc = "yielded" => Last(TurnOps).op = "notice"
    /\ pc = "query" => Last(TurnOps).op = "search"

C18_Witness ==
    /\ pc = "for"
    /\ Len(TurnOps) >= 10
    /\ Last(TurnOps) = Op("tool", 1)
    /\ TurnOps[Len(TurnOps) - 1] = Op("search", 1)
    /\ TurnOps[Len(TurnOps) - 2] = Op("notice", 1)
    /\ TurnOps[Len(TurnOps) - 3] = Op("parse", 1)
    /\ TurnOps[Len(TurnOps) - 4] = Op("tool", 0)

\* ---------------------------------------------------------------- C19
\* Turns in which the Executor was called.
C19_TurnsThatExecuted ==
    Cardinality({p \in 1 .. Len(trace) :
                    /\ trace[p].op = "assistant"
                    /\ \E q \in p + 1 .. Len(trace) :
                          /\ trace[q].op = "search"
                          /\ \A r \in p .. q : trace[r].op # "invoke"})

\* Turns that went on to process tool calls: every invocation but the first
\* follows one, and so does the state of a request that is processing them.
C19_ToolTurns ==
    {n \in 0 .. Len(sent) :
        \/ pc \in {"for", "notice", "yielded", "query"} /\ n = Len(sent)
        \/ pc = "create" /\ n = Len(sent)
        \/ pc \in {"await", "stream", "finalize", "done"} /\ n = Len(sent) - 1
        \/ pc \in {"aborted", "closed"} /\ n \in {Len(sent) - 1, Len(sent)}}

C19_Appended == SubSeq(openai_messages, InitLen + 1, Len(openai_messages))

\* C19 as stated: in every reachable state each assistant message of the
\* Transcript carries at least one tool-call descriptor and the assistant
\* messages are as many as the turns that executed tool calls.
C19_EveryAssistantCarriesCalls ==
    /\ \A k \in 1 .. Len(openai_messages) :
          IsAssistant(openai_messages[k])
             => Len(openai_messages[k].tool_calls) >= 1
    /\ Len(SelectSeq(openai_messages, IsAssistant)) = C19_TurnsThatExecuted

\* C19: a terminating turn leaves the Transcript as it was sent, with its
\* text delivered; each assistant message that run_agent appended carries
\* at least one tool-call descriptor; the appended assistant messages are
\* as many as the turns that went on to process tool calls, and no fewer
\* than the turns that called the Executor.
C19_TerminatingTurnAppendsNothing ==
    /\ pc = "done"
          => /\ openai_messages = Last(sent)
             /\ LET o == Flat(output)
                    n == Len(collected_content)
                IN  /\ Len(o) >= n
                    /\ SubSeq(o, Len(o) - n + 1, Len(o)) = collected_content
    /\ \A k \in 1 .. Len(C19_Appended) :
          IsAssistant(C19_Appended[k])
             => Len(C19_Appended[k].tool_calls) >= 1
    /\ Len(SelectSeq(C19_Appended, IsAssistant)) \in C19_ToolTurns
    /\ C19_TurnsThatExecuted <= Len(SelectSeq(C19_Appended, IsAssistant))

C19_Witness ==
    /\ pc = "done"
    /\ Len(sent) = 2
    /\ collected_content # <<>>
    /\ Len(SelectSeq(C19_Appended, IsAssistant)) = 1
    /\ Len(SelectSeq(openai_messages, IsAssistant)) = 2

\* ---------------------------------------------------------------- C20
\* The loop with every step that can be taken eventually taken: the
\* provider answers, a stream delivers its next event or ends, the
\* Executor returns or raises.
SpecLive == Init /\ [][Next]_vars /\ WF_vars(Next)

Terminated == pc \in {"done", "aborted", "closed"}

\* The provider has not produced a turn without a named call within
\* MaxTurns invocations.
BeyondMaxTurns == pc = "create" /\ Len(sent) = MaxTurns

\* C20: run_agent sets no bound on the turns: after a turn of tool calls
\* the next invocation can always be issued, up to the MaxTurns of the
\* model; and every request terminates, no step of a turn holding it up
\* for ever, unless the provider has asked for tool calls in each of the
\* MaxTurns turns.
C20_UnboundedTurnsEventuallyTerminates ==
    /\ []((pc = "create" /\ Len(sent) < MaxTurns) => ENABLED Invoke)
    /\ <>(Terminated \/ BeyondMaxTurns)

C20_Witness ==
    /\ pc = "done"
    /\ Len(sent) >= 3
    /\ Len(SelectSeq(C19_Appended, IsAssistant)) = 2

=============================================================================
